---- MODULE Spec2Model ----
(***************************************************************************)
(* Model of scripts/daily_crypto_summary.py: one run of the daily digest   *)
(* pipeline (fetch_news, fetch_market, the enrichment retry loop of main,  *)
(* build_fallback_summary_dict, hebrewize_summary_dict, send_email_html    *)
(* and the process exit of the __main__ block).                            *)
(*                                                                         *)
(* Texts are sequences of one-character strings.  Python's None is         *)
(* NoneText for text-valued fields and NoneNum for number-valued fields.   *)
(* Percentages are integers in hundredths of a percent (150 is 1.50%).     *)
(***************************************************************************)
EXTENDS Integers, Sequences, FiniteSets, TLC

VARIABLES
    env,        \* module-level configuration read at import (lines 39-45)
    pc,         \* position of the run
    src,        \* fetch_news: index of the next source of RSS_SOURCES
    items,      \* fetch_news: the local list `items`
    feedlog,    \* fetch_news: per source, the feed served and where it failed
    news,       \* main: `news`
    market,     \* main: `market`
    attempt,    \* main: number of enrichment attempts made so far
    summary,    \* main: `summary_dict`
    rendered,   \* the value handed to format_email_html
    calls,      \* external calls made so far, per kind
    smtp,       \* how far the SMTP dialogue went
    exit,       \* process exit status, NoneNum while running
    diag        \* diagnostics written to stderr / stdout

vars == <<env, pc, src, items, feedlog, news, market, attempt, summary,
          rendered, calls, smtp, exit, diag>>

----------------------------------------------------------------------------
(* Values *)

NoneText == <<"None">>
NoneNum  == -1000000

LatinChars  == {"a", "b", "c", "e", "h", "k", "s", "t", "x",
                "B", "C", "E", "H", "T"}
HebrewChars == {"heb"}   \* one letter of the Hebrew block
TagChar     == "<t>"     \* one whole markup tag
SpaceChars  == {" ", TagChar}

Min(a, b) == IF a < b THEN a ELSE b

Take(s, n) == SubSeq(s, 1, Min(n, Len(s)))

RECURSIVE Join(_, _)
Join(parts, sep) ==
    IF parts = <<>> THEN <<>>
    ELSE IF Len(parts) = 1 THEN parts[1]
    ELSE parts[1] \o sep \o Join(Tail(parts), sep)

\* Python truthiness of a text or None
TruthyText(t) == t # NoneText /\ t # <<>>

----------------------------------------------------------------------------
(* clean, lines 59-63: markup stripped, whitespace collapsed and trimmed *)

RECURSIVE CleanFrom(_, _, _)
CleanFrom(s, i, pendingSpace) ==
    IF i > Len(s) THEN <<>>
    ELSE IF s[i] \in SpaceChars THEN CleanFrom(s, i + 1, TRUE)
    ELSE (IF pendingSpace THEN <<" ">> ELSE <<>>) \o <<s[i]>>
            \o CleanFrom(s, i + 1, FALSE)

RECURSIVE SkipSpaces(_, _)
SkipSpaces(s, i) ==
    IF i <= Len(s) /\ s[i] \in SpaceChars THEN SkipSpaces(s, i + 1) ELSE i

clean(text) ==
    IF ~TruthyText(text) THEN <<>>
    ELSE CleanFrom(text, SkipSpaces(text, 1), FALSE)

----------------------------------------------------------------------------
(* Number formatting: f"{v:,.0f}", f"{price:,}" and f"{chg:+.2f}" *)

DigitChar(d) == <<"0", "1", "2", "3", "4", "5", "6", "7", "8", "9">>[d + 1]

RECURSIVE Digits(_)
Digits(n) == IF n < 10 THEN <<DigitChar(n)>>
             ELSE Digits(n \div 10) \o <<DigitChar(n % 10)>>

RECURSIVE Grouped(_)
Grouped(n) ==
    IF n < 1000 THEN Digits(n)
    ELSE Grouped(n \div 1000) \o <<",">>
           \o <<DigitChar((n \div 100) % 10), DigitChar((n \div 10) % 10),
                DigitChar(n % 10)>>

pretty_money(x) == Grouped(x)

SignedFixed2(h) ==
    LET a == IF h < 0 THEN -h ELSE h
    IN  (IF h < 0 THEN <<"-">> ELSE <<"+">>) \o Digits(a \div 100) \o <<".">>
          \o <<DigitChar((a \div 10) % 10), DigitChar(a % 10)>>

----------------------------------------------------------------------------
(* Times.  A datetime is [s, us]: seconds and a sub-second part.  Feed      *)
(* timestamps are given as the UTC instant they denote (line 90).           *)

Since == [s |-> 1, us |-> 0]              \* since_utc, line 75

TimeGE(a, b) == a.s > b.s \/ (a.s = b.s /\ a.us >= b.us)

\* datetime.isoformat(): the sub-second part is printed only when non-zero
isoformat(t) ==
    <<DigitChar(t.s)>>
      \o (IF t.us # 0 THEN <<".", DigitChar(t.us)>> ELSE <<>>)
      \o <<"+", "0">>

\* code point of a character of an isoformat string
Ord(c) ==
    CASE c = "+" -> 43
      [] c = "." -> 46
      [] c = "0" -> 48 [] c = "1" -> 49 [] c = "2" -> 50 [] c = "3" -> 51
      [] c = "4" -> 52 [] c = "5" -> 53 [] c = "6" -> 54 [] c = "7" -> 55
      [] c = "8" -> 56 [] c = "9" -> 57

\* Python's str < str: lexicographic by code point, a proper prefix is less
StrLess(a, b) ==
    \E k \in 1 .. (Min(Len(a), Len(b)) + 1) :
        /\ \A j \in 1 .. (k - 1) : a[j] = b[j]
        /\ \/ k > Len(a) /\ k <= Len(b)
           \/ k <= Len(a) /\ k <= Len(b) /\ Ord(a[k]) < Ord(b[k])

----------------------------------------------------------------------------
(* fetch_news, lines 73-111 *)

NumSources == 2
RSS_SOURCES == 1 .. NumSources            \* lines 49-56
NewsCap == 120                            \* line 111

NoStamp  == [s |-> -1, us |-> 0]          \* attribute absent or empty
BadStamp == [s |-> -2, us |-> 0]          \* dateparser.parse raises

\* lines 80-87: the first populated timestamp field that parses
RECURSIVE FirstParsed(_)
FirstParsed(stamps) ==
    IF stamps = <<>> THEN NoStamp
    ELSE IF Head(stamps).s >= 0 THEN Head(stamps)
    ELSE FirstParsed(Tail(stamps))

\* getattr(feed.feed, "title", url), line 93
SourceName(url) == <<"s", DigitChar(url)>>

\* lines 92-98
NewsItem(url, e, pub) ==
    [source    |-> SourceName(url),
     title     |-> clean(e.title),
     summary   |-> clean(e.summary),
     link      |-> e.link,
     published |-> isoformat(pub)]

\* lines 88-91: an entry is kept when a timestamp parsed and it is inside
\* the window
InWindow(e) ==
    FirstParsed(e.stamps) # NoStamp /\ TimeGE(FirstParsed(e.stamps), Since)

\* lines 79-98 over the entries processed, in the order of the feed
ItemsOf(url, entries) ==
    LET kept == SelectSeq(entries, InWindow)
    IN  [p \in 1 .. Len(kept) |->
            NewsItem(url, kept[p], FirstParsed(kept[p].stamps))]

\* a collection that is never sorted
Unsorted(its) == its

\* line 105: sorted(items, key=lambda x: x["published"], reverse=True).
\* The keys are compared as strings; the sort is stable, so items with equal
\* keys keep their order of collection.
SortedDesc(its) ==
    LET n    == Len(its)
        rank == [i \in 1 .. n |->
                    1 + Cardinality({j \in 1 .. n :
                          \/ StrLess(its[i].published, its[j].published)
                          \/ its[j].published = its[i].published /\ j < i})] \o <<>>
        at   == [p \in 1 .. n |-> CHOOSE i \in 1 .. n : rank[i] = p] \o <<>>
    IN  [p \in 1 .. n |-> its[at[p]]]

NewsKey(it) == <<it.title, it.link>>      \* line 106

\* lines 103-110: an item is kept unless its key was seen on an earlier item
Dedup(s) ==
    LET keys    == [i \in 1 .. Len(s) |-> NewsKey(s[i])] \o <<>>
        Keep(i) == \A j \in 1 .. (i - 1) : keys[j] # keys[i]
        kept    == SelectSeq([i \in 1 .. Len(s) |-> i], Keep)
    IN  [p \in 1 .. Len(kept) |-> s[kept[p]]]

NoFail == -1

\* where the processing of a feed can raise: before any entry (the parse),
\* or after some of its entries have been appended
FailPoints(feed) ==
    IF Len(feed) <= 3 THEN 0 .. Len(feed) ELSE {0, Len(feed)}

Bump(c, kind) == [c EXCEPT ![kind] = @ + 1]

\* one iteration of the loop of lines 76-100
AtSource == pc = "fetch_news" /\ src \in RSS_SOURCES

\* the loop with the try around it instead of inside it: a failure ends it
FetchSourceAborting(Feeds) ==
    /\ AtSource
    /\ \E feed \in Feeds :
       \E failAt \in {NoFail} \cup FailPoints(feed) :
         /\ LET processed == IF failAt = NoFail THEN feed ELSE Take(feed, failAt)
            IN  items' = items \o ItemsOf(src, processed)
         /\ feedlog' = Append(feedlog, [feed |-> feed, failAt |-> failAt])
         /\ diag' = IF failAt = NoFail THEN diag ELSE diag \cup {"warn_rss"}
         /\ src' = IF failAt = NoFail THEN src + 1 ELSE NumSources + 1
    /\ calls' = Bump(calls, "feed")
    /\ UNCHANGED <<env, pc, news, market, attempt, summary, rendered, smtp, exit>>

FetchSource(Feeds) ==
    /\ AtSource
    /\ \E feed \in Feeds :
       \E failAt \in {NoFail} \cup FailPoints(feed) :
         /\ LET processed == IF failAt = NoFail THEN feed ELSE Take(feed, failAt)
            IN  items' = items \o ItemsOf(src, processed)
         /\ feedlog' = Append(feedlog, [feed |-> feed, failAt |-> failAt])
         /\ diag' = IF failAt = NoFail THEN diag ELSE diag \cup {"warn_rss"}
    /\ src' = src + 1
    /\ calls' = Bump(calls, "feed")
    /\ UNCHANGED <<env, pc, news, market, attempt, summary, rendered, smtp, exit>>

\* lines 102-111 and the return to main, line 537
AtNewsReturn == pc = "fetch_news" /\ src \notin RSS_SOURCES

FetchNewsReturn ==
    /\ AtNewsReturn
    /\ news' = Take(Dedup(SortedDesc(items)), NewsCap)
    /\ pc' = "fetch_market"
    /\ UNCHANGED <<env, src, items, feedlog, market, attempt, summary, rendered,
                   calls, smtp, exit, diag>>

----------------------------------------------------------------------------
(* fetch_market, lines 114-155.  The snapshot `out` is a mapping whose keys *)
(* "global" and "markets" are present only when the request succeeded.      *)

AssetCap == 50                            \* line 138

\* lines 139-150, the fields the digest reads
TrimAsset(c) ==
    [name |-> c.name, symbol |-> c.symbol, current_price |-> c.current_price,
     price_change_percentage_24h |-> c.price_change_percentage_24h,
     high_24h |-> c.high_24h, low_24h |-> c.low_24h]

RECURSIVE TrimAll(_)
TrimAll(m) == IF m = <<>> THEN <<>> ELSE <<TrimAsset(Head(m))>> \o TrimAll(Tail(m))

NoResponse == [failed |-> TRUE]

\* the mapping returned for the two responses (NoResponse: the request raised)
MarketOut(g, m) ==
    LET keys == (IF g = NoResponse THEN {} ELSE {"global"})
                  \cup (IF m = NoResponse THEN {} ELSE {"markets"})
    IN  [k \in keys |-> IF k = "global" THEN g.data
                        ELSE TrimAll(Take(m.list, AssetCap))]

\* Responses: pairs of the answers to the two requests
FetchMarket(Responses) ==
    /\ pc = "fetch_market"
    /\ \E r \in Responses :
         /\ market' = MarketOut(r[1], r[2])
         /\ diag' = diag \cup (IF r[1] = NoResponse THEN {"warn_global"} ELSE {})
                         \cup (IF r[2] = NoResponse THEN {"warn_markets"} ELSE {})
    /\ calls' = Bump(Bump(calls, "market"), "market")
    /\ pc' = "enrich"
    \* the frame of fetch_news is gone by now
    /\ items' = <<>>
    /\ feedlog' = <<>>
    /\ UNCHANGED <<env, src, news, attempt, summary, rendered, smtp, exit>>

----------------------------------------------------------------------------
(* build_fallback_summary_dict, lines 429-490 *)

MoversCount == 5                          \* line 437
NewsTop     == 7                          \* line 462
ExcerptLen  == 200                        \* line 468
LinksCap    == 8                          \* line 489

Today == <<"d">>                          \* NOW.strftime("%d.%m.%Y")

NoneGlobal == [none |-> TRUE]             \* "data": null

MarketsOf(mkt) == IF "markets" \in DOMAIN mkt THEN mkt["markets"] ELSE <<>>

\* line 436: (c.get("price_change_percentage_24h") or 0)
MoverKey(c) ==
    IF c.price_change_percentage_24h = NoneNum THEN 0
    ELSE c.price_change_percentage_24h

\* sorted(..., reverse=True) is stable: an asset goes behind every asset whose
\* key is greater than or equal to its own
RECURSIVE InsertMover(_, _)
InsertMover(sorted, c) ==
    IF sorted = <<>> THEN <<c>>
    ELSE IF MoverKey(Head(sorted)) >= MoverKey(c)
      THEN <<Head(sorted)>> \o InsertMover(Tail(sorted), c)
    ELSE <<c>> \o sorted

RECURSIVE SortMovers(_, _)
SortMovers(sorted, rest) ==
    IF rest = <<>> THEN sorted
    ELSE SortMovers(InsertMover(sorted, Head(rest)), Tail(rest))

\* lines 435-437: sorted(..., key=..., reverse=True)[:5]
TopMovers(mkt) == Take(SortMovers(<<>>, MarketsOf(mkt)), MoversCount)

\* line 440: the movers that are printed
HasName(c) == c.name # NoneText

ListedMovers(mkt) == SelectSeq(TopMovers(mkt), HasName)

\* line 439
MoverText(c) ==
    c.name \o <<" ">> \o SignedFixed2(c.price_change_percentage_24h) \o <<"%">>

RECURSIVE MoverTexts(_)
MoverTexts(cs) ==
    IF cs = <<>> THEN <<>> ELSE <<MoverText(Head(cs))>> \o MoverTexts(Tail(cs))

movers_str(mkt) == Join(MoverTexts(ListedMovers(mkt)), <<" ", "/", " ">>)

Lower(ch) ==
    CASE ch = "B" -> "b" [] ch = "C" -> "c" [] ch = "E" -> "e"
      [] ch = "H" -> "h" [] ch = "T" -> "t" [] OTHER -> ch

LowerText(t) == [i \in 1 .. Len(t) |-> Lower(t[i])]

\* lines 444-448; NoCoin is the None returned when no asset matches
NoCoin == [none |-> TRUE]

SymbolIs(c, symbol) ==
    LowerText(IF c.symbol = NoneText THEN <<>> ELSE c.symbol) = symbol

find_coin(mkt, symbol) ==
    LET s    == MarketsOf(mkt)
        hits == {i \in 1 .. Len(s) : SymbolIs(s[i], symbol)}
    IN  IF hits = {} THEN NoCoin
        ELSE s[CHOOSE i \in hits : \A j \in hits : i <= j]

\* line 456 formats four numbers; a None among them raises TypeError
CoinLineRaises(c) ==
    /\ c # NoCoin
    /\ NoneNum \in {c.current_price, c.price_change_percentage_24h,
                    c.high_24h, c.low_24h}

\* lines 450-456
coin_line(c, label) ==
    IF c = NoCoin THEN <<>>
    ELSE label \o <<":", " ", "$">> \o Grouped(c.current_price) \o <<" ", "(">>
           \o SignedFixed2(c.price_change_percentage_24h)
           \o <<"%", ")", ",", " ", "heb", ":", " ", "$">> \o Grouped(c.low_24h)
           \o <<"-", "$">> \o Grouped(c.high_24h)

\* line 468
Excerpt(summary_) ==
    Take(summary_, ExcerptLen)
      \o (IF Len(summary_) > ExcerptLen THEN <<".", ".", ".">> ELSE <<>>)

\* lines 466-471
RECURSIVE NewsStruct(_)
NewsStruct(ns) ==
    IF ns = <<>> THEN <<>>
    ELSE <<[title   |-> Head(ns).title,
            summary |-> Excerpt(Head(ns).summary),
            source  |-> Head(ns).source,
            link    |-> Head(ns).link]>> \o NewsStruct(Tail(ns))

\* lines 472-473
RECURSIVE NewsLinks(_)
NewsLinks(ns) ==
    IF ns = <<>> THEN <<>>
    ELSE (IF Head(ns).link # <<>>
            THEN <<[title |-> clean(Head(ns).title), url |-> Head(ns).link]>>
            ELSE <<>>) \o NewsLinks(Tail(ns))

\* whether build_fallback_summary_dict raises instead of returning
FallbackRaises(mkt) ==
    \/ "global" \in DOMAIN mkt /\ mkt["global"] = NoneGlobal          \* line 431
    \/ \E i \in 1 .. Len(ListedMovers(mkt)) :                         \* line 439
          ListedMovers(mkt)[i].price_change_percentage_24h = NoneNum
    \/ CoinLineRaises(find_coin(mkt, <<"b", "t", "c">>))              \* line 458
    \/ CoinLineRaises(find_coin(mkt, <<"e", "t", "h">>))              \* line 459

\* lines 430-432
GlobalUsd(mkt, field) ==
    IF "global" \in DOMAIN mkt /\ mkt["global"] # NoneGlobal
      THEN mkt["global"][field] ELSE NoneNum

\* lines 475-490, the dict returned
build_fallback_summary_dict(news_items, mkt) ==
    LET mktcap == GlobalUsd(mkt, "cap")
        vol24  == GlobalUsd(mkt, "vol")
        top    == Take(news_items, NewsTop)
    IN  [date   |-> Today,
         tldr   |-> <<"heb">>,
         market |->
           [cap    |-> IF mktcap # NoneNum /\ mktcap # 0
                         THEN pretty_money(mktcap) \o <<" ", "$", " ", "heb">>
                         ELSE <<>>,
            volume |-> IF vol24 # NoneNum /\ vol24 # 0
                         THEN pretty_money(vol24) \o <<" ", "$", " ", "heb">>
                         ELSE <<>>,
            movers |-> movers_str(mkt),
            btc    |-> coin_line(find_coin(mkt, <<"b", "t", "c">>), <<"B", "T", "C">>),
            eth    |-> coin_line(find_coin(mkt, <<"e", "t", "h">>), <<"E", "T", "H">>)],
         news       |-> NewsStruct(top),
         regulation |-> <<>>,
         points     |-> <<>>,
         future     |-> <<>>,
         links      |-> Take(NewsLinks(top), LinksCap)]

----------------------------------------------------------------------------
(* Python values held by summary_dict *)

PyNone    == [t |-> "none"]
PyList    == [t |-> "list"]               \* a non-empty JSON array
PyDict(d) == [t |-> "dict", d |-> d]

Truthy(v) == \/ v.t = "list"
             \/ v.t = "dict" /\ DOMAIN v.d # {}

\* line 547: isinstance(summary_dict, dict) and "market" in summary_dict
PassesValidation(v) == v.t = "dict" /\ "market" \in DOMAIN v.d

----------------------------------------------------------------------------
(* Translation guard, lines 252-332 *)

\* lines 255-260
needs_translation(s) ==
    /\ TruthyText(s)
    /\ \E i \in 1 .. Len(s) : s[i] \in LatinChars
    /\ \A i \in 1 .. Len(s) : s[i] \notin HebrewChars

RECURSIVE RStrip(_)
RStrip(s) ==
    IF s # <<>> /\ s[Len(s)] \in SpaceChars THEN RStrip(SubSeq(s, 1, Len(s) - 1))
    ELSE s

strip(s) == RStrip(SubSeq(s, SkipSpaces(s, 1), Len(s)))

RaisedReply == <<"raise">>                \* the request raised

\* the guard of line 264 without its credential test
IssuesRequestKeyless(text, key) == needs_translation(text)

\* whether translate_to_hebrew issues a request for this text, line 264
IssuesRequest(text, key) == TruthyText(key) /\ needs_translation(text)

\* lines 262-280; reply is what the service answers to the request
translate_to_hebrew(text, key, reply) ==
    IF ~IssuesRequest(text, key) THEN text
    ELSE IF reply = RaisedReply THEN text
    ELSE IF strip(reply) = <<>> THEN text
    ELSE strip(reply)

RECURSIVE TranslateAll(_, _, _)
TranslateAll(arr, key, reply) ==
    IF arr = <<>> THEN <<>>
    ELSE <<translate_to_hebrew(Head(arr), key, reply)>>
           \o TranslateAll(Tail(arr), key, reply)

TranslateFields(rec, fields, key, reply) ==
    [f \in DOMAIN rec |->
        IF f \in fields THEN translate_to_hebrew(rec[f], key, reply) ELSE rec[f]]

RECURSIVE TranslateEach(_, _, _, _)
TranslateEach(recs, fields, key, reply) ==
    IF recs = <<>> THEN <<>>
    ELSE <<TranslateFields(Head(recs), fields, key, reply)>>
           \o TranslateEach(Tail(recs), fields, key, reply)

Get(d, k) == IF k \in DOMAIN d THEN d[k] ELSE <<>>

\* a JSON string where a mapping is expected is the record [str |-> text]
IsStr(x) == "str" \in DOMAIN x

\* line 296: mk.get on a value that is no mapping raises AttributeError
HebrewizeRaises(v) ==
    v.t = "dict" /\ "market" \in DOMAIN v.d /\ IsStr(v.d["market"])

\* lines 282-332
hebrewize_summary_dict(v, key, reply) ==
    IF v.t # "dict" THEN v
    ELSE LET d == v.d
         IN  PyDict(
               [k \in DOMAIN d \cup {"market", "news", "regulation", "points",
                                     "future", "links"} |->
                  CASE k = "tldr"   -> translate_to_hebrew(d[k], key, reply)
                    [] k = "market" ->
                         TranslateFields(Get(d, k),
                             {"cap", "volume", "movers", "btc", "eth"}, key, reply)
                    [] k = "news"   ->
                         TranslateEach(Get(d, k), {"title", "summary", "source"},
                                       key, reply)
                    [] k \in {"regulation", "points", "future"} ->
                         TranslateAll(Get(d, k), key, reply)
                    [] k = "links"  ->
                         TranslateEach(Get(d, k), {"title"}, key, reply)
                    [] OTHER        -> d[k]])

\* the texts hebrewize_summary_dict hands to translate_to_hebrew
RECURSIVE FieldTexts(_, _)
FieldTexts(recs, fields) ==
    IF recs = <<>> THEN {}
    ELSE {Head(recs)[f] : f \in fields \cap DOMAIN Head(recs)}
           \cup FieldTexts(Tail(recs), fields)

VisitedTexts(v) ==
    IF v.t # "dict" THEN {}
    ELSE LET d == v.d
         IN  (IF "tldr" \in DOMAIN d THEN {d["tldr"]} ELSE {})
               \cup FieldTexts(<<Get(d, "market")>>,
                               {"cap", "volume", "movers", "btc", "eth"})
               \cup FieldTexts(Get(d, "news"), {"title", "summary", "source"})
               \cup {Get(d, "regulation")[i] : i \in 1 .. Len(Get(d, "regulation"))}
               \cup {Get(d, "points")[i] : i \in 1 .. Len(Get(d, "points"))}
               \cup {Get(d, "future")[i] : i \in 1 .. Len(Get(d, "future"))}
               \cup FieldTexts(Get(d, "links"), {"title"})

\* whether the pass issues at least one translation request
PassIssuesRequest(v, key) == \E t \in VisitedTexts(v) : IssuesRequest(t, key)

----------------------------------------------------------------------------
(* Recipients, lines 493-498 *)

RECURSIVE SplitOn(_, _, _)
SplitOn(s, i, cur) ==
    IF i > Len(s) THEN <<cur>>
    ELSE IF s[i] \in {";", ","} THEN <<cur>> \o SplitOn(s, i + 1, <<>>)
    ELSE SplitOn(s, i + 1, Append(cur, s[i]))

NonEmptyText(t) == t # <<>>

RECURSIVE StripAll(_)
StripAll(parts) ==
    IF parts = <<>> THEN <<>> ELSE <<strip(Head(parts))>> \o StripAll(Tail(parts))

_parse_recipients(val) ==
    IF ~TruthyText(val) THEN <<>>
    ELSE SelectSeq(StripAll(SplitOn(val, 1, <<>>)), NonEmptyText)

----------------------------------------------------------------------------
(* The environment of a run *)

SmtpPort == 587

EmailToValues     == {NoneText, <<>>, <<";", " ">>, <<"a">>}
EmailToListValues == {NoneText, <<",">>, <<"a", ";", " ", "b">>}

Envs ==
    [EMAIL_TO       : EmailToValues,
     EMAIL_TO_LIST  : EmailToListValues,
     EMAIL_HOST     : {NoneText, <<"h">>},
     EMAIL_PORT     : {NoneNum, SmtpPort},
     EMAIL_USER     : {NoneText, <<"a">>},
     EMAIL_PASS     : {NoneText, <<"x">>},
     OPENAI_API_KEY : {NoneText, <<"k">>}]

\* feed entries
Entry(title, summary_, link, stamps) ==
    [title |-> title, summary |-> summary_, link |-> link, stamps |-> stamps]

T1  == [s |-> 1, us |-> 0]
T15 == [s |-> 1, us |-> 5]
T2  == [s |-> 2, us |-> 0]
T0  == [s |-> 0, us |-> 5]                \* before the window

EntryA1  == Entry(<<"a">>, <<"c">>, <<"l", "1">>, <<T1, NoStamp, NoStamp>>)
EntryA1s == Entry(<<"a">>, <<"b">>, <<"l", "1">>, <<T1, NoStamp, NoStamp>>)
EntryA2  == Entry(<<TagChar, "a", " ">>, <<>>, <<"l", "1">>, <<NoStamp, T2, NoStamp>>)
EntryB1  == Entry(<<"b">>, <<"c">>, <<"l", "1">>, <<BadStamp, NoStamp, T1>>)
EntryC15 == Entry(<<"a">>, <<"c">>, <<"l", "2">>, <<T15, T0, NoStamp>>)
EntryOld == Entry(<<"b">>, <<>>, <<"l", "2">>, <<T0, T2, NoStamp>>)
EntryNoTs == Entry(<<"b">>, <<>>, <<>>, <<NoStamp, BadStamp, NoStamp>>)

\* a feed with more in-window entries than the cap keeps
BigFeed ==
    [i \in 1 .. NewsCap + 1 |->
        Entry(<<"c">> \o Digits(i), <<>>, <<"l", "1">>, <<T1, NoStamp, NoStamp>>)]

SmallFeeds ==
    {<<>>, <<EntryA1>>, <<EntryA1s, EntryA2>>, <<EntryB1, EntryC15>>,
     <<EntryOld, EntryNoTs, EntryA1>>}

MainFeeds == {<<>>, <<EntryA1>>}

\* market responses
Asset(name, symbol, price, chg, hi, lo) ==
    [name |-> name, symbol |-> symbol, current_price |-> price,
     price_change_percentage_24h |-> chg, high_24h |-> hi, low_24h |-> lo]

Btc      == Asset(<<"B">>, <<"b", "t", "c">>, 60000, 150, 61000, 59000)
Eth      == Asset(<<"E">>, <<"E", "T", "H">>, 3000, -25, 3100, 2900)
CoinA    == Asset(<<"a">>, <<"a">>, 1, 900, 2, 1)
CoinB    == Asset(<<"b">>, <<"b">>, 2, 150, 3, 1)
CoinC    == Asset(<<"c">>, NoneText, 5, -300, 6, 4)
CoinX    == Asset(<<"x">>, <<"x">>, 7, 0, 8, 6)
Nameless == Asset(NoneText, <<"x">>, 1, 1200, 2, 1)
NullChg  == Asset(<<"s">>, <<"s">>, 1, NoneNum, 2, 1)
NullBtc  == Asset(<<"B">>, <<"b", "t", "c">>, NoneNum, 150, 61000, 59000)

GlobalOk   == [data |-> [cap |-> 2500000, vol |-> 900]]
GlobalBare == [data |-> [cap |-> NoneNum, vol |-> 0]]
GlobalNull == [data |-> NoneGlobal]

ListOf(m) == [list |-> m]

FullList == ListOf(<<Btc, CoinA, Eth, CoinB, CoinC, CoinX>>)

MainMarkets ==
    {<<NoResponse, NoResponse>>,
     <<GlobalOk, FullList>>,
     <<GlobalBare, ListOf(<<CoinB, Nameless>>)>>,
     <<NoResponse, ListOf(<<CoinA, NullChg>>)>>,
     <<GlobalOk, ListOf(<<NullBtc>>)>>,
     <<GlobalNull, FullList>>}

\* what generate_summary_json returns, or RaisedResp when it raises
RaisedResp == [t |-> "raise"]

ValidResp ==
    PyDict([date   |-> Today,
            tldr   |-> <<"a">>,
            market |-> [cap |-> <<"heb">>, movers |-> <<"B", " ", "heb">>],
            news   |-> <<[title |-> <<"heb">>, summary |-> <<"heb">>,
                          source |-> <<"s">>, link |-> <<"l", "1">>]>>,
            points |-> << <<"heb">>, <<"a">> >>,
            links  |-> <<[title |-> <<"a">>, url |-> <<"l", "1">>]>>])
NoMarketResp  == PyDict([tldr |-> <<"a">>])
EmptyResp     == PyDict(<<>>)
MarketStrResp == PyDict([market |-> [str |-> <<"heb">>]])

MainResponses ==
    {RaisedResp, ValidResp, NoMarketResp, EmptyResp, PyList, MarketStrResp}

TranslateReplies == {RaisedReply, <<" ">>, <<"heb", " ">>}

----------------------------------------------------------------------------
(* main, lines 532-570, and the __main__ block, lines 572-577 *)

MaxAttempts == 3                          \* line 544

NoCalls == [feed |-> 0, market |-> 0, llm |-> 0, translate |-> 0, smtp |-> 0]

Init ==
    /\ env \in Envs
    /\ pc = "start"
    /\ src = 1
    /\ items = <<>>
    /\ feedlog = <<>>
    /\ news = <<>>
    /\ market = <<>>
    /\ attempt = 0
    /\ summary = PyNone
    /\ rendered = PyNone
    /\ calls = NoCalls
    /\ smtp = "none"
    /\ exit = NoneNum
    /\ diag = {}

\* an exception that reaches line 575: "[FATAL] ..." and sys.exit(1)
Fatal ==
    /\ pc' = "done"
    /\ exit' = 1
    /\ diag' = diag \cup {"fatal"}

\* lines 533-535
\* a gate that accepts either recipient variable
MainStartEitherVariable ==
    /\ pc = "start"
    /\ IF ~TruthyText(env.EMAIL_TO) /\ ~TruthyText(env.EMAIL_TO_LIST)
         THEN /\ pc' = "done"
              /\ exit' = 1
              /\ diag' = diag \cup {"missing_email_to"}
         ELSE /\ pc' = "fetch_news"
              /\ UNCHANGED <<exit, diag>>
    /\ UNCHANGED <<env, src, items, feedlog, news, market, attempt, summary,
                   rendered, calls, smtp>>

MainStart ==
    /\ pc = "start"
    /\ IF ~TruthyText(env.EMAIL_TO)
         THEN /\ pc' = "done"
              /\ exit' = 1
              /\ diag' = diag \cup {"missing_email_to"}
         ELSE /\ pc' = "fetch_news"
              /\ UNCHANGED <<exit, diag>>
    /\ UNCHANGED <<env, src, items, feedlog, news, market, attempt, summary,
                   rendered, calls, smtp>>

\* line 552: the warning names the attempt
WarnOpenAI == <<"warn_openai_1", "warn_openai_2", "warn_openai_3">>

\* one iteration of the loop of lines 544-554
AtAttempt ==
    pc = "enrich" /\ TruthyText(env.OPENAI_API_KEY) /\ attempt < MaxAttempts

EnrichAttempt(Responses) ==
    /\ AtAttempt
    /\ \E r \in Responses :
         /\ summary' = IF r = RaisedResp THEN summary ELSE r
         /\ IF r # RaisedResp /\ PassesValidation(r)
              THEN /\ pc' = "hebrewize"
                   /\ diag' = diag
              ELSE /\ pc' = IF attempt + 1 = MaxAttempts THEN "loop_done" ELSE "enrich"
                   /\ diag' = diag \cup {WarnOpenAI[attempt + 1]}
    /\ attempt' = attempt + 1
    /\ calls' = Bump(calls, "llm")
    /\ UNCHANGED <<env, src, items, feedlog, news, market, rendered, smtp, exit>>

\* the call of build_fallback_summary_dict at lines 557 and 560
UseFallback ==
    IF FallbackRaises(market)
      THEN Fatal /\ UNCHANGED summary
      ELSE /\ summary' = PyDict(build_fallback_summary_dict(news, market))
           /\ pc' = "hebrewize"
           /\ diag' = diag \cup {"info_fallback"}
           /\ UNCHANGED exit

\* lines 555-557, after the loop ran out of attempts
AfterLoop ==
    /\ pc = "loop_done"
    /\ IF ~Truthy(summary)
         THEN UseFallback
         ELSE /\ pc' = "hebrewize"
              /\ UNCHANGED <<summary, diag, exit>>
    /\ UNCHANGED <<env, src, items, feedlog, news, market, attempt, rendered,
                   calls, smtp>>

\* lines 558-560
AtNoKey == pc = "enrich" /\ ~TruthyText(env.OPENAI_API_KEY)

NoKeyFallback ==
    /\ AtNoKey
    /\ UseFallback
    /\ UNCHANGED <<env, src, items, feedlog, news, market, attempt, rendered,
                   calls, smtp>>

\* line 563
Hebrewize ==
    /\ pc = "hebrewize"
    /\ \E reply \in TranslateReplies :
         IF HebrewizeRaises(summary)
           THEN Fatal /\ UNCHANGED <<summary, calls>>
           ELSE /\ summary' = hebrewize_summary_dict(summary, env.OPENAI_API_KEY, reply)
                /\ calls' = IF PassIssuesRequest(summary, env.OPENAI_API_KEY)
                              THEN Bump(calls, "translate") ELSE calls
                /\ pc' = "render"
                /\ UNCHANGED <<exit, diag>>
    /\ UNCHANGED <<env, src, items, feedlog, news, market, attempt, rendered, smtp>>

\* lines 565-567: format_email_html reads summary_dict with .get, which a
\* value that is no mapping does not have
Render ==
    /\ pc = "render"
    /\ IF summary.t # "dict"
         THEN Fatal /\ UNCHANGED rendered
         ELSE rendered' = summary /\ pc' = "send" /\ UNCHANGED <<exit, diag>>
    /\ UNCHANGED <<env, src, items, feedlog, news, market, attempt, summary,
                   calls, smtp>>

----------------------------------------------------------------------------
(* send_email_html, lines 500-528 *)

\* line 507
to_list == _parse_recipients(IF TruthyText(env.EMAIL_TO_LIST)
                               THEN env.EMAIL_TO_LIST ELSE env.EMAIL_TO)

\* line 509
AllCredentials ==
    /\ TruthyText(env.EMAIL_HOST)
    /\ env.EMAIL_PORT # NoneNum /\ env.EMAIL_PORT # 0
    /\ TruthyText(env.EMAIL_USER)
    /\ TruthyText(env.EMAIL_PASS)

\* line 509 without its recipient test
ConfigErrorCredentialsOnly == ~AllCredentials

ConfigError == ~AllCredentials \/ to_list = <<>>

\* the ways the dialogue of lines 522-528 can end; "quit_failed" is a message
\* taken by the server followed by an exception when the with block closes
\* the session
SmtpOutcomes ==
    {"connect_failed", "login_failed", "send_raised", "send_rejected",
     "quit_failed", "accepted"}

\* line 527 dropped: a refused message is reported as sent
SendEmailUnchecked ==
    /\ pc = "send"
    /\ IF ConfigError
         THEN Fatal /\ UNCHANGED <<smtp, calls>>
         ELSE \E outcome \in SmtpOutcomes :
                /\ smtp' = outcome
                /\ calls' = Bump(calls, "smtp")
                /\ IF outcome \in {"accepted", "send_rejected"}
                     THEN /\ pc' = "done"
                          /\ exit' = 0
                          /\ diag' = diag \cup {"email_sent"}
                     ELSE Fatal
    /\ UNCHANGED <<env, src, items, feedlog, news, market, attempt, summary, rendered>>

\* line 569 and, when it returns, line 570
SendEmail ==
    /\ pc = "send"
    /\ IF ConfigError
         THEN Fatal /\ UNCHANGED <<smtp, calls>>
         ELSE \E outcome \in SmtpOutcomes :
                /\ smtp' = outcome
                /\ calls' = Bump(calls, "smtp")
                /\ IF outcome = "accepted"
                     THEN /\ pc' = "done"
                          /\ exit' = 0
                          /\ diag' = diag \cup {"email_sent"}
                     ELSE Fatal
    /\ UNCHANGED <<env, src, items, feedlog, news, market, attempt, summary, rendered>>

----------------------------------------------------------------------------
(* Specifications *)

Next ==
    \/ MainStart
    \/ FetchSource(MainFeeds)
    \/ FetchNewsReturn
    \/ FetchMarket(MainMarkets)
    \/ EnrichAttempt(MainResponses)
    \/ AfterLoop
    \/ NoKeyFallback
    \/ Hebrewize
    \/ Render
    \/ SendEmail

Spec == Init /\ [][Next]_vars

\* fetch_news alone, as main calls it, over a wider range of feeds; the long
\* feed is served by the first source
NewsEnv ==
    [EMAIL_TO |-> <<"a">>, EMAIL_TO_LIST |-> NoneText, EMAIL_HOST |-> <<"h">>,
     EMAIL_PORT |-> SmtpPort, EMAIL_USER |-> <<"a">>, EMAIL_PASS |-> <<"x">>,
     OPENAI_API_KEY |-> NoneText]

InitNews == Init /\ env = NewsEnv

NextNews ==
    \/ MainStart
    \/ FetchSource(IF src = 1 THEN SmallFeeds \cup {BigFeed} ELSE SmallFeeds)
    \/ FetchNewsReturn

SpecNews == InitNews /\ [][NextNews]_vars

----------------------------------------------------------------------------
(* Properties *)

\* the third attempt failed, hence all three did (a success leaves the loop)
AllFailed == "warn_openai_3" \in diag

\* build_fallback_summary_dict returned
Degraded == "info_fallback" \in diag

FallbackDigest == PyDict(build_fallback_summary_dict(news, market))

\* send_email_html was called and the run is over
SendDone == pc = "done" /\ rendered.t = "dict"

\* C1: when no attempt passed validation, what is rendered is the fallback
\* digest (as the translation pass leaves it), never a response that failed
\* validation.
C1_FailedResponseNeverRendered ==
    (AllFailed /\ rendered # PyNone)
      => /\ ~FallbackRaises(market)
         /\ \E reply \in TranslateReplies :
              rendered = hebrewize_summary_dict(FallbackDigest,
                                                env.OPENAI_API_KEY, reply)

DegradedKeys ==
    {"date", "tldr", "market", "news", "regulation", "points", "future", "links"}

StructurallyValid(v) ==
    /\ v.t = "dict"
    /\ DOMAIN v.d = DegradedKeys
    /\ DOMAIN v.d["market"] = {"cap", "volume", "movers", "btc", "eth"}

\* C2: with a credential and three failed attempts, the generator leaves a
\* structurally valid digest and does not raise, whatever was collected.
C2_DegradedDigestAlwaysProduced ==
    (AllFailed /\ pc \notin {"enrich", "loop_done"})
      => /\ StructurallyValid(summary)
         /\ Degraded

PcRank ==
    CASE pc = "start" -> 0 [] pc = "fetch_news" -> 1 [] pc = "fetch_market" -> 2
      [] pc = "enrich" -> 3 [] pc = "loop_done" -> 4 [] pc = "hebrewize" -> 5
      [] pc = "render" -> 6 [] pc = "send" -> 7 [] pc = "done" -> 8

\* some step of the run can be taken: the guards of the actions
CanStep ==
    \/ pc \in {"start", "fetch_market", "loop_done", "hebrewize", "render", "send"}
    \/ AtSource \/ AtNewsReturn
    \/ AtAttempt \/ AtNoKey

SentOutcome == exit = 0 /\ smtp = "accepted" /\ "email_sent" \in diag

FailedOutcome ==
    /\ exit \notin {0, NoneNum}
    /\ smtp # "accepted"
    /\ diag \cap {"fatal", "missing_email_to"} # {}

RecipientMissing ==
    \/ ~TruthyText(env.EMAIL_TO)
    \/ _parse_recipients(IF TruthyText(env.EMAIL_TO_LIST)
                           THEN env.EMAIL_TO_LIST ELSE env.EMAIL_TO) = <<>>

TransportFailed == smtp \notin {"none", "accepted"}

FinalOutcome ==
    /\ SentOutcome \/ FailedOutcome
    /\ (RecipientMissing \/ TransportFailed) => FailedOutcome

\* C3: every run ends, and ends either with the mail accepted and exit
\* status 0 or with a non-zero status and a diagnostic; a missing recipient
\* and a send failure end it the second way.  Every step moves the run
\* forward, a run that has not ended can take a step, and a run that has
\* ended shows one of the two outcomes.
C3_TwoOutcomes ==
    [][/\ PcRank' > PcRank \/ (PcRank' = PcRank /\ src' + attempt' > src + attempt)
       /\ pc' = "done" => FinalOutcome'
       /\ pc' # "done" => CanStep' /\ exit' = NoneNum]_vars

C3_DegradedMailSent == pc = "done" /\ exit = 0 /\ Degraded /\ AllFailed

\* C4: without OPENAI_API_KEY no attempt is made, no translation request
\* is issued and the digest rendered is the one build_fallback_summary_dict
\* returned.
C4_NoKeyGoesDegraded ==
    ~TruthyText(env.OPENAI_API_KEY)
      => /\ attempt = 0
         /\ calls.llm = 0
         /\ calls.translate = 0
         /\ pc \in {"hebrewize", "render", "send"} => Degraded
         /\ rendered # PyNone => Degraded /\ rendered = FallbackDigest

C4_NoKeyRendered ==
    /\ ~TruthyText(env.OPENAI_API_KEY)
    /\ pc = "done" /\ exit = 0
    /\ rendered.t = "dict"
    /\ rendered.d["news"] # <<>>
    /\ needs_translation(rendered.d["news"][1].title)

\* C5: a Degraded digest is a function of the collected news and market
\* alone.  The service may fail every request of the translation pass, and
\* the digest is then the value build_fallback_summary_dict returned; so the
\* digest is the same for every behaviour of the service exactly when it is
\* always that value.
C5_DegradedIndependentOfLLM ==
    (Degraded /\ rendered # PyNone) => rendered = FallbackDigest

SmtpSettingMissing ==
    \/ ~TruthyText(env.EMAIL_HOST)
    \/ env.EMAIL_PORT = NoneNum
    \/ ~TruthyText(env.EMAIL_USER)
    \/ ~TruthyText(env.EMAIL_PASS)

RecipientsEmpty ==
    _parse_recipients(IF TruthyText(env.EMAIL_TO_LIST)
                        THEN env.EMAIL_TO_LIST ELSE env.EMAIL_TO) = <<>>

\* C6: with an SMTP setting missing or an empty parsed recipient list,
\* send_email_html raises before any send attempt: no connection, no login,
\* nothing sent.
C6_ConfigErrorBeforeSend ==
    (SmtpSettingMissing \/ RecipientsEmpty)
      => /\ smtp = "none"
         /\ calls.smtp = 0
         /\ SendDone => exit = 1 /\ "fatal" \in diag

C6_EmptyListRaised ==
    /\ SendDone
    /\ ~SmtpSettingMissing
    /\ RecipientsEmpty
    /\ exit = 1

\* C7: a run that ends with a configuration error has made no external
\* call: no feed fetch, no market request, no LLM request, no connection.
C7_ConfigErrorBeforeSideEffects ==
    (SendDone /\ (SmtpSettingMissing \/ RecipientsEmpty)) => calls = NoCalls

----------------------------------------------------------------------------
(* fetch_news *)

DigitVal(ch) == Ord(ch) - 48

\* the instant an isoformat string denotes
InstantOf(iso) ==
    [s  |-> DigitVal(iso[1]),
     us |-> IF iso[2] = "." THEN DigitVal(iso[3]) ELSE 0]

Later(a, b) == TimeGE(InstantOf(a.published), InstantOf(b.published))

\* positions in items of the items with the key of it
SameKey(it) == {q \in 1 .. Len(items) : NewsKey(items[q]) = NewsKey(it)}

\* it is the item a descending stable sort puts first among those of its key:
\* none is strictly later, and of those as late it was collected first
FirstOfKey(it) ==
    \E p \in SameKey(it) :
        /\ items[p] = it
        /\ \A q \in SameKey(it) :
              /\ Later(it, items[q])
              /\ (Later(items[q], it) => p <= q)

Returned == pc = "fetch_market"

\* C8: the news returned holds no two items with the same (title, link), the
\* item kept for a key is the first of that key in descending order of
\* publication, the list is in descending order of publication and holds at
\* most 120 items; every key collected is kept unless the list is full.
C8_DedupSortedCapped ==
    Returned
      => /\ Len(news) <= NewsCap
         /\ \A i \in 1 .. Len(news) : \A j \in (i + 1) .. Len(news) :
               /\ NewsKey(news[i]) # NewsKey(news[j])
               /\ Later(news[i], news[j])
         /\ \A i \in 1 .. Len(news) : FirstOfKey(news[i])
         /\ \/ Len(news) = NewsCap
            \/ \A q \in 1 .. Len(items) :
                  \E i \in 1 .. Len(news) : NewsKey(news[i]) = NewsKey(items[q])

C8_DuplicateDropped ==
    /\ Returned
    /\ Len(news) >= 2
    /\ \E p, q \in 1 .. Len(items) :
          /\ p < q
          /\ NewsKey(items[p]) = NewsKey(items[q])
          /\ items[p].published # items[q].published
          /\ \E i \in 1 .. Len(news) : news[i] = items[q]

EntryKey(e) == <<clean(e.title), e.link>>

\* C9: a source that fails does not end the collection: every source is
\* still processed, fetch_news returns, and every in-window entry of the
\* sources that did not fail is in the news returned, unless the list is full.
C9_SourceFailureIsolated ==
    /\ pc \in {"fetch_news", "fetch_market"} => exit = NoneNum
    /\ Returned
         => /\ Len(feedlog) = NumSources
            /\ calls.feed = NumSources
            /\ \A u \in 1 .. Len(feedlog) :
                  feedlog[u].failAt = NoFail
                    => \/ Len(news) = NewsCap
                       \/ \A k \in 1 .. Len(feedlog[u].feed) :
                             InWindow(feedlog[u].feed[k])
                               => \E i \in 1 .. Len(news) :
                                     NewsKey(news[i]) = EntryKey(feedlog[u].feed[k])

C9_LaterSourceKept ==
    /\ Returned
    /\ \E u, v \in 1 .. Len(feedlog) :
          /\ u < v
          /\ feedlog[u].failAt # NoFail
          /\ feedlog[v].failAt = NoFail
          /\ \E i \in 1 .. Len(news) : news[i].source = SourceName(v)

----------------------------------------------------------------------------
(* Top movers *)

Change(c) == c.price_change_percentage_24h

\* C10: the movers listed are the 5 assets (all, if fewer) with the highest
\* 24h change, in non-increasing order of that change.
C10_TopMoversListed ==
    Degraded
      => LET listed == ListedMovers(market)
             assets == MarketsOf(market)
         IN  /\ Len(listed) = Min(MoversCount, Len(assets))
             /\ \A i \in 1 .. Len(listed) : \A j \in (i + 1) .. Len(listed) :
                   Change(listed[i]) >= Change(listed[j])
             /\ \A k \in 1 .. Len(assets) :
                   \/ \E i \in 1 .. Len(listed) : listed[i] = assets[k]
                   \/ \A i \in 1 .. Len(listed) : Change(assets[k]) <= Change(listed[i])

----------------------------------------------------------------------------
(* The attempt loop and the recipient gate *)

\* C11: with a credential, a run makes at most 3 calls of
\* generate_summary_json, makes a call only when every earlier attempt
\* failed, no step of the loop ends the process, and the step after the
\* third failed attempt builds the fallback digest and goes on instead of
\* ending the process with an error.
C11_ThreeAttemptsThenDegraded ==
    [][TruthyText(env.OPENAI_API_KEY)
         => /\ calls.llm' <= MaxAttempts
            /\ calls.llm' > calls.llm
                 => \A k \in 1 .. calls.llm : WarnOpenAI[k] \in diag
            /\ pc = "enrich" => exit' = NoneNum /\ pc' # "done"
            /\ pc = "loop_done"
                 => /\ "info_fallback" \in diag'
                    /\ exit' = NoneNum
                    /\ pc' # "done"]_vars

\* C12: with EMAIL_TO unset or empty the run exits with status 1 before any
\* feed, market, LLM or SMTP call, whatever EMAIL_TO_LIST and the SMTP
\* settings are; and send_email_html takes the recipients from a non-empty
\* EMAIL_TO_LIST and from EMAIL_TO only otherwise: with the SMTP settings
\* present it opens a connection exactly when that list parses to a
\* recipient.
C12_GateReadsEmailToOnly ==
    /\ ~TruthyText(env.EMAIL_TO)
         => /\ pc \in {"start", "done"}
            /\ calls = NoCalls
            /\ smtp = "none"
            /\ pc = "done" => exit = 1 /\ "missing_email_to" \in diag
    /\ (SendDone /\ ~SmtpSettingMissing)
         => (smtp = "none" <=> RecipientsEmpty)

C12_ListSetGateClosed ==
    /\ ~TruthyText(env.EMAIL_TO)
    /\ TruthyText(env.EMAIL_TO_LIST)
    /\ _parse_recipients(env.EMAIL_TO_LIST) # <<>>
    /\ ~SmtpSettingMissing
    /\ pc = "done"
    /\ exit = 1

====
